---- MODULE Spec2Model ----
(***************************************************************************)
(* Model of the password generator of src/encode.py (the "secure password  *)
(* generator day3.py" section): build_charset, ensure_each_category,       *)
(* generate_password, estimate_entropy, strength_label and the PassGenApp  *)
(* handlers; of the Caesar functions of src/encode.py; and of the hashing  *)
(* tool of src/unnamed/part_000.  In the password generator characters are *)
(* one-character strings and Python strings are sequences of characters.   *)
(***************************************************************************)
EXTENDS Integers, Sequences, FiniteSets, TLC

VARIABLES
    args,          \* generate_password: the parameters of the call under study
    ret,           \* generate_password: how the call ended and its locals
    entropy_bits,  \* strength_label: its parameter (fixed point, 1/Scale bit)
    label,         \* strength_label: the returned label ("" before the call)
    est_args,      \* estimate_entropy: two lengths and a charset size
    est_ret,       \* estimate_entropy: the two entropies and their labels
    length_var,    \* PassGenApp: the Length spinbox
    count_var,     \* PassGenApp: the Count spinbox
    lower_var,     \* PassGenApp: the Lowercase checkbutton
    upper_var,     \* PassGenApp: the Uppercase checkbutton
    digits_var,    \* PassGenApp: the Digits checkbutton
    symbols_var,   \* PassGenApp: the Symbols checkbutton
    ambig_var,     \* PassGenApp: the Exclude ambiguous checkbutton
    text,          \* PassGenApp: the content of the output box
    entropy_var,   \* PassGenApp: the entropy shown, in tenths of a bit
    strength_var,  \* PassGenApp: the strength label shown
    status_var,    \* PassGenApp: the status line
    messagebox,    \* the dialog the last handler showed, "none" if it showed none
    clipboard,     \* the clipboard of the window system
    events,        \* number of handlers run since the window opened
    cz_args,       \* caesar_transform: the parameters of the call under study
    cz_ret,        \* caesar_transform: the output, and the output transformed back
    algo_var,      \* HashGUI: the Algorithm combobox
    text_widget,   \* HashGUI: the content of the input box
    hash_var,      \* HashGUI: the Computed Hash entry
    verify_var,    \* HashGUI: the Verify against entry
    status,        \* HashGUI: the status bar
    hash_box       \* HashGUI: the dialog the last handler showed, "none" if none

fnVars == <<args, ret, entropy_bits, label, est_args, est_ret>>
guiVars == <<length_var, count_var, lower_var, upper_var, digits_var, symbols_var,
             ambig_var, text, entropy_var, strength_var, status_var, messagebox,
             clipboard, events>>
czVars == <<cz_args, cz_ret>>
hashVars == <<algo_var, text_widget, hash_var, verify_var, status, hash_box>>
vars == <<fnVars, guiVars, czVars, hashVars>>

----------------------------------------------------------------------------
(* Bounds of the exploration *)

\* lengths explored by the generate_password specification: -NegLen..MaxLen
MaxLen == 4
NegLen == 1
\* the random tape: TapeLen values, each below MaxRand, read cyclically
TapeLen == 4
MaxRand == 3
\* PassGenApp: the lengths 0..GuiMaxLen and the default, the counts
\* 0..MaxCount, MaxEvents handlers run since the window opened
GuiMaxLen == 1
MaxCount == 2
MaxEvents == 4
\* strength_label is explored for the entropies 0..MaxBits, in steps of 1/Scale
MaxBits == 90
\* estimate_entropy is explored for the lengths -NegLen..MaxEntLen and the
\* charset sizes -1..MaxCharset
MaxEntLen == 32
MaxCharset == 94

----------------------------------------------------------------------------
(* Character sets, src/encode.py lines 499-504 *)

LOWER == <<"a","b","c","d","e","f","g","h","i","j","k","l","m",
           "n","o","p","q","r","s","t","u","v","w","x","y","z">>
UPPER == <<"A","B","C","D","E","F","G","H","I","J","K","L","M",
           "N","O","P","Q","R","S","T","U","V","W","X","Y","Z">>
DIGITS == <<"0","1","2","3","4","5","6","7","8","9">>
SYMBOLS == <<"!","@","#","$","%","^","&","*","(",")","-","_","=",
             "+","[","]","{","}",";",":",",",".","<",">","/","?">>
AMBIG == <<"I","l","1","O","0">>

\* Python's `ch in s` for a one-character ch
In(ch, s) == \E i \in DOMAIN s : s[i] = ch

\* ''.join(ch for ch in s if ch not in AMBIG)
NotAmbig(ch) == ~In(ch, AMBIG)
strip_ambig(s) == SelectSeq(s, NotAmbig)

\* ''.join(parts)
RECURSIVE join(_)
join(parts) == IF parts = <<>> THEN <<>> ELSE Head(parts) \o join(Tail(parts))

\* build_charset forgetting to remove the ambiguous characters from the charset
build_charset_keep(include_lower, include_upper, include_digits, include_symbols, exclude_ambig) ==
    LET parts == (IF include_lower THEN <<LOWER>> ELSE <<>>)
                 \o (IF include_upper THEN <<UPPER>> ELSE <<>>)
                 \o (IF include_digits THEN <<DIGITS>> ELSE <<>>)
                 \o (IF include_symbols THEN <<SYMBOLS>> ELSE <<>>)
    IN [charset |-> join(parts), parts |-> parts]

\* build_charset falling back to the lowercase letters when nothing is selected
build_charset_default(include_lower, include_upper, include_digits, include_symbols, exclude_ambig) ==
    LET parts == (IF include_lower THEN <<LOWER>> ELSE <<>>)
                 \o (IF include_upper THEN <<UPPER>> ELSE <<>>)
                 \o (IF include_digits THEN <<DIGITS>> ELSE <<>>)
                 \o (IF include_symbols THEN <<SYMBOLS>> ELSE <<>>)
        chosen == IF parts = <<>> THEN <<LOWER>> ELSE parts
        charset == join(chosen)
    IN [charset |-> IF exclude_ambig THEN strip_ambig(charset) ELSE charset,
        parts |-> chosen]

\* build_charset: returns (charset, parts)
build_charset(include_lower, include_upper, include_digits, include_symbols, exclude_ambig) ==
    LET parts == (IF include_lower THEN <<LOWER>> ELSE <<>>)
                 \o (IF include_upper THEN <<UPPER>> ELSE <<>>)
                 \o (IF include_digits THEN <<DIGITS>> ELSE <<>>)
                 \o (IF include_symbols THEN <<SYMBOLS>> ELSE <<>>)
        charset == join(parts)
    IN [charset |-> IF exclude_ambig THEN strip_ambig(charset) ELSE charset,
        parts |-> parts]

\* ensure_each_category returning the parts as they came
ensure_each_category_keep(chosen_parts, exclude_ambig) == chosen_parts

\* ensure_each_category: the parts with the ambiguous characters removed if needed
ensure_each_category(chosen_parts, exclude_ambig) ==
    [i \in DOMAIN chosen_parts |->
        IF exclude_ambig THEN strip_ambig(chosen_parts[i]) ELSE chosen_parts[i]]

----------------------------------------------------------------------------
(* The secure random source.  An outcome of the source is a tape of numbers;
   the k-th draw of a call reads the tape cyclically. *)

Tapes == [1..TapeLen -> 0..(MaxRand - 1)]

\* secrets.randbelow(n), as the k-th draw (k from 0): a value in 0..n-1
randbelow(tape, k, n) == tape[(k % Len(tape)) + 1] % n

\* secrets.choice(seq), as the k-th draw
choice(tape, k, seq) == seq[randbelow(tape, k, Len(seq)) + 1]

----------------------------------------------------------------------------
(* generate_password, src/encode.py lines 527-545 *)

Max(a, b) == IF a >= b THEN a ELSE b

\* the swap written as two assignments in a row: combined[i] is lost
swap_overwrite(combined, i, j) ==
    [x \in DOMAIN combined |-> IF x = i + 1 THEN combined[j + 1] ELSE combined[x]]

\* combined[i], combined[j] = combined[j], combined[i]  (i, j count from 0)
swap(combined, i, j) ==
    [combined EXCEPT ![i + 1] = combined[j + 1], ![j + 1] = combined[i + 1]]

\* for i in range(len(combined)-1, 0, -1): j = randbelow(i+1); swap i, j
\* k is the number of draws made before the iteration for index i
RECURSIVE shuffle(_, _, _, _)
shuffle(combined, i, tape, k) ==
    IF i < 1 THEN combined
    ELSE shuffle(swap(combined, i, randbelow(tape, k, i + 1)), i - 1, tape, k + 1)

\* the required draws stopping one category early
required_draws_skip_last(parts, tape, k) ==
    LET nonempty == SelectSeq(parts, LAMBDA p : p # <<>>)
    IN [i \in 1..(Len(nonempty) - 1) |-> choice(tape, k + i - 1, nonempty[i])]

\* the list comprehension [secrets.choice(p) for p in parts if p]
required_draws(parts, tape, k) ==
    LET nonempty == SelectSeq(parts, LAMBDA p : p # <<>>)
    IN [i \in DOMAIN nonempty |-> choice(tape, k + i - 1, nonempty[i])]

\* the draws from the charset stopping one character early
charset_draws_short(charset, n, tape, k) ==
    [i \in 1..Max(n - 1, 0) |-> choice(tape, k + i - 1, charset)]

\* [secrets.choice(charset) for _ in range(n)]; range(n) is empty for n <= 0
charset_draws(charset, n, tape, k) ==
    [i \in 1..Max(n, 0) |-> choice(tape, k + i - 1, charset)]

\* The call generate_password(length, ...) under the outcome `tape` of the
\* random source, the first draw being draw number k0.  The record holds how
\* the call ended (status), the returned string (pwd) and the locals.
generate_password(length, include_lower, include_upper, include_digits, include_symbols, exclude_ambig, tape, k0) ==
    LET built == build_charset(include_lower, include_upper, include_digits,
                               include_symbols, exclude_ambig)
        charset == built.charset
        parts == ensure_each_category(built.parts, exclude_ambig)
        required == required_draws(parts, tape, k0)
        R == Len(required)
        remaining == length - R
        others == charset_draws(charset, remaining, tape, k0 + R)
        combined == required \o others
    IN IF charset = <<>>
       THEN [status |-> "ValueError", pwd |-> <<>>, path |-> "raise",
             charset |-> charset, parts |-> parts,
             required |-> <<>>, others |-> <<>>, draws |-> 0]
       ELSE IF R > length
       THEN [status |-> "returned",
             pwd |-> charset_draws(charset, length - 0, tape, k0 + R),
             path |-> "fallback",
             charset |-> charset, parts |-> parts,
             required |-> required, others |-> <<>>,
             draws |-> R + Max(length, 0)]
       ELSE [status |-> "returned",
             pwd |-> shuffle(combined, Len(combined) - 1, tape, k0 + R + remaining),
             path |-> "normal",
             charset |-> charset, parts |-> parts,
             required |-> required, others |-> others,
             draws |-> R + remaining + Max(Len(combined) - 1, 0)]

----------------------------------------------------------------------------
(* Specification of the calls of generate_password: Init draws the
   parameters, Call applies the function under every tape. *)

Lengths == (0 - NegLen)..MaxLen

NoCall == [status |-> "pending", pwd |-> <<>>, path |-> "",
           charset |-> <<>>, parts |-> <<>>,
           required |-> <<>>, others |-> <<>>, draws |-> 0]

NoEstimate == [done |-> FALSE, bits1 |-> 0, bits2 |-> 0, label1 |-> "", label2 |-> ""]

\* caesar_transform is not called
NoCaesar == [step |-> 0, out |-> <<>>, back |-> <<>>]
CaesarIdle ==
    /\ cz_args = [text |-> <<>>, shift |-> 0, mode |-> "encode", rotate_digits |-> FALSE]
    /\ cz_ret = NoCaesar

\* The content of an entry of the hashing window: `core` is the text with its
\* letters in lowercase and without surrounding whitespace, written as the
\* digest it is (algorithm and hashed bytes); `upper` says the letters are
\* typed in uppercase, `padded` that whitespace surrounds the text.
NoText == [alg |-> "", data |-> <<>>]
\* an entry holding no character
EmptyString == [core |-> NoText, upper |-> FALSE, padded |-> FALSE]

\* the hashing window is not open
HashIdle ==
    /\ algo_var = "" /\ text_widget = <<>>
    /\ hash_var = EmptyString /\ verify_var = EmptyString
    /\ status = "" /\ hash_box = "none"

\* the window is not open
GuiIdle ==
    /\ length_var = 0 /\ count_var = 0
    /\ lower_var = FALSE /\ upper_var = FALSE /\ digits_var = FALSE
    /\ symbols_var = FALSE /\ ambig_var = FALSE
    /\ text = <<>> /\ entropy_var = 0 /\ strength_var = "" /\ status_var = ""
    /\ messagebox = "none" /\ clipboard = <<>> /\ events = 0

OtherIdle ==
    /\ GuiIdle
    /\ CaesarIdle
    /\ HashIdle
    /\ entropy_bits = 0
    /\ label = ""
    /\ est_args = [length1 |-> 0, length2 |-> 0, charset_size |-> 0]
    /\ est_ret = NoEstimate

PasswordInit ==
    /\ args \in [length : Lengths, include_lower : BOOLEAN, include_upper : BOOLEAN,
                 include_digits : BOOLEAN, include_symbols : BOOLEAN,
                 exclude_ambig : BOOLEAN]
    /\ ret = NoCall
    /\ OtherIdle

CallGeneratePassword ==
    /\ ret.status = "pending"
    /\ \E tape \in Tapes :
          ret' = generate_password(args.length, args.include_lower, args.include_upper,
                                   args.include_digits, args.include_symbols,
                                   args.exclude_ambig, tape, 0)
    /\ UNCHANGED <<args, entropy_bits, label, est_args, est_ret, guiVars, czVars, hashVars>>

PasswordNext == CallGeneratePassword

SpecPassword == PasswordInit /\ [][PasswordNext]_vars

----------------------------------------------------------------------------
(* What the claims speak of, stated on the parameters of the call alone *)

CharsOf(s) == {s[i] : i \in DOMAIN s}

AmbiguousSet == {"I", "l", "1", "O", "0"}

\* the alphabets of the enabled categories
EnabledAlphabets ==
    (IF args.include_lower THEN {CharsOf(LOWER)} ELSE {})
    \cup (IF args.include_upper THEN {CharsOf(UPPER)} ELSE {})
    \cup (IF args.include_digits THEN {CharsOf(DIGITS)} ELSE {})
    \cup (IF args.include_symbols THEN {CharsOf(SYMBOLS)} ELSE {})

\* the non-empty reduced alphabets of the enabled categories, and their number R
ReducedAlphabets ==
    {B \in {IF args.exclude_ambig THEN A \ AmbiguousSet ELSE A : A \in EnabledAlphabets} :
        B # {}}

RCount == Cardinality(ReducedAlphabets)

NoCategory ==
    ~(args.include_lower \/ args.include_upper \/ args.include_digits
      \/ args.include_symbols)

\* the charset build_charset returns for the parameters of the call
EffectiveCharset ==
    build_charset(args.include_lower, args.include_upper, args.include_digits,
                  args.include_symbols, args.exclude_ambig).charset

\* how many characters of the sequence s lie in the set A
CountIn(s, A) == Cardinality({i \in DOMAIN s : s[i] \in A})

----------------------------------------------------------------------------
(* C1: when R <= length, the returned password holds at least one character
   of the reduced alphabet of every enabled category. *)
C1_Coverage ==
    (ret.status = "returned" /\ RCount <= args.length)
        => \A A \in ReducedAlphabets : CountIn(ret.pwd, A) >= 1

C1_Witness ==
    /\ ret.status = "returned"
    /\ RCount = 4
    /\ args.length = 4
    /\ args.exclude_ambig
    /\ \A A \in ReducedAlphabets : CountIn(ret.pwd, A) = 1

(* C2: when the number of enabled non-empty categories exceeds the requested
   length, the call fails with LengthTooShort and returns no password. *)
C2_TooShortFails ==
    (ret.status # "pending" /\ args.length >= 1 /\ RCount > args.length)
        => (ret.status = "LengthTooShort" /\ ret.pwd = <<>>)

(* C3: for a valid configuration (length >= 1, a category enabled) the call
   returns a password of exactly `length` characters, on either path. *)
C3_LengthInvariant ==
    (ret.status # "pending" /\ args.length >= 1 /\ ~NoCategory)
        => (ret.status = "returned" /\ Len(ret.pwd) = args.length)

C3_Witness ==
    /\ ret.status = "returned"
    /\ ret.path = "fallback"
    /\ args.length = 2
    /\ RCount = 3
    /\ Len(ret.pwd) = 2

(* C4: every character of a returned password is a member of the effective
   charset that build_charset returns for the same configuration. *)
C4_CharsetContainment ==
    ret.status = "returned"
        => \A i \in DOMAIN ret.pwd : In(ret.pwd[i], EffectiveCharset)

C4_Witness ==
    /\ ret.status = "returned"
    /\ ret.path = "normal"
    /\ args.exclude_ambig
    /\ args.include_digits
    /\ Len(ret.required) >= 2
    /\ Len(ret.others) >= 1
    /\ \E i \in DOMAIN ret.pwd : ret.pwd[i] \in CharsOf(DIGITS)

(* C5: with exclude_ambig set, no character of a returned password is one of
   I, l, 1, O, 0. *)
C5_AmbiguousExclusion ==
    (ret.status = "returned" /\ args.exclude_ambig)
        => \A i \in DOMAIN ret.pwd : ret.pwd[i] \notin AmbiguousSet

\* the exclusion acts: the same draws without it would be ambiguous characters
C5_Witness ==
    /\ ret.status = "returned"
    /\ args.exclude_ambig
    /\ args.include_digits
    /\ ~args.include_lower /\ ~args.include_upper /\ ~args.include_symbols
    /\ args.length = 3
    /\ ret.pwd = <<"2", "2", "2">>

(* C7: with no category enabled the call raises an error before any random
   draw and returns no password. *)
C7_NoCategoryRaises ==
    (ret.status # "pending" /\ NoCategory)
        => (ret.status = "ValueError" /\ ret.draws = 0 /\ ret.pwd = <<>>)

C7_Witness ==
    /\ NoCategory
    /\ args.exclude_ambig
    /\ args.length = 4
    /\ ret.status = "ValueError"

(* C8: when length equals R, the returned password holds exactly one
   character of each enabled category's reduced alphabet and no filler. *)
C8_ExactFit ==
    (ret.status = "returned" /\ args.length = RCount)
        => /\ Len(ret.pwd) = RCount
           /\ \A A \in ReducedAlphabets : CountIn(ret.pwd, A) = 1
           /\ ret.others = <<>>

\* {Lowercase, Digits} with length 2: the digit first, the letter second
C8_Witness ==
    /\ ret.status = "returned"
    /\ args.include_lower /\ args.include_digits
    /\ ~args.include_upper /\ ~args.include_symbols
    /\ args.length = 2
    /\ ret.pwd[1] \in CharsOf(DIGITS)
    /\ ret.pwd[2] \in CharsOf(LOWER)

----------------------------------------------------------------------------
(* estimate_entropy and strength_label, src/encode.py lines 547-563.
   A float number of bits is a fixed-point integer: Scale units to the bit. *)

\* binary digits after the point of a number of bits
FracBits == 10
Scale == 2 ^ FracBits
\* binary digits after the point of the mantissa while the logarithm is computed
MantBits == 14

\* floor(log2(n)) for n >= 1
RECURSIVE ilog2(_)
ilog2(n) == IF n < 2 THEN 0 ELSE 1 + ilog2(n \div 2)

\* the next nbits binary digits of log2(x / 2^MantBits), 1 <= x / 2^MantBits < 2,
\* by repeated squaring
RECURSIVE log2_digits(_, _)
log2_digits(x, nbits) ==
    IF nbits = 0 THEN 0
    ELSE LET sq == (x * x) \div (2 ^ MantBits)
         IN IF sq >= 2 ^ (MantBits + 1)
            THEN 2 ^ (nbits - 1) + log2_digits(sq \div 2, nbits - 1)
            ELSE log2_digits(sq, nbits - 1)

\* math.log2(n) for an integer n >= 1, in units of 1/Scale bit
log2(n) ==
    LET e == ilog2(n)
    IN e * Scale + log2_digits((n * (2 ^ MantBits)) \div (2 ^ e), FracBits)

estimate_entropy(length, charset_size) ==
    IF charset_size <= 0 THEN 0 ELSE length * log2(charset_size)

\* strength_label with each boundary given to the lower label
strength_label_le(bits) ==
    IF bits <= 28 * Scale THEN "Very weak"
    ELSE IF bits <= 36 * Scale THEN "Weak"
    ELSE IF bits <= 60 * Scale THEN "Reasonable"
    ELSE IF bits <= 80 * Scale THEN "Strong"
    ELSE "Very strong"

\* strength_label with the two middle labels exchanged
strength_label_swapped(bits) ==
    IF bits < 28 * Scale THEN "Very weak"
    ELSE IF bits < 36 * Scale THEN "Reasonable"
    ELSE IF bits < 60 * Scale THEN "Weak"
    ELSE IF bits < 80 * Scale THEN "Strong"
    ELSE "Very strong"

strength_label(bits) ==
    IF bits < 28 * Scale THEN "Very weak"
    ELSE IF bits < 36 * Scale THEN "Weak"
    ELSE IF bits < 60 * Scale THEN "Reasonable"
    ELSE IF bits < 80 * Scale THEN "Strong"
    ELSE "Very strong"

----------------------------------------------------------------------------
(* Specification of the calls of strength_label *)

PasswordIdle ==
    /\ args = [length |-> 0, include_lower |-> FALSE, include_upper |-> FALSE,
               include_digits |-> FALSE, include_symbols |-> FALSE,
               exclude_ambig |-> FALSE]
    /\ ret = NoCall

LabelInit ==
    /\ entropy_bits \in 0..(MaxBits * Scale)
    /\ label = ""
    /\ est_args = [length1 |-> 0, length2 |-> 0, charset_size |-> 0]
    /\ est_ret = NoEstimate
    /\ PasswordIdle
    /\ GuiIdle
    /\ CaesarIdle
    /\ HashIdle

CallStrengthLabel ==
    /\ label = ""
    /\ label' = strength_label(entropy_bits)
    /\ UNCHANGED <<args, ret, entropy_bits, est_args, est_ret, guiVars, czVars, hashVars>>

LabelNext == CallStrengthLabel

SpecLabel == LabelInit /\ [][LabelNext]_vars

(* Specification of the calls of estimate_entropy: one charset size, two
   lengths, and the label of each entropy *)

EntropyInit ==
    /\ est_args \in [length1 : (0 - NegLen)..MaxEntLen, length2 : (0 - NegLen)..MaxEntLen,
                     charset_size : (0 - 1)..MaxCharset]
    /\ est_ret = NoEstimate
    /\ entropy_bits = 0
    /\ label = ""
    /\ PasswordIdle
    /\ GuiIdle
    /\ CaesarIdle
    /\ HashIdle

CallEstimateEntropy ==
    /\ ~est_ret.done
    /\ LET bits1 == estimate_entropy(est_args.length1, est_args.charset_size)
           bits2 == estimate_entropy(est_args.length2, est_args.charset_size)
       IN est_ret' = [done |-> TRUE, bits1 |-> bits1, bits2 |-> bits2,
                      label1 |-> strength_label(bits1),
                      label2 |-> strength_label(bits2)]
    /\ UNCHANGED <<args, ret, entropy_bits, label, est_args, guiVars, czVars, hashVars>>

EntropyNext == CallEstimateEntropy

SpecEntropy == EntropyInit /\ [][EntropyNext]_vars

----------------------------------------------------------------------------
(* C9: strength_label is the step function with thresholds 28, 36, 60, 80;
   each boundary belongs to the higher label and one label is returned for
   every non-negative entropy. *)
C9_StrengthThresholds ==
    label # ""
        => /\ label \in {"Very weak", "Weak", "Reasonable", "Strong", "Very strong"}
           /\ (label = "Very weak") <=> (entropy_bits < 28 * Scale)
           /\ (label = "Weak") <=> (28 * Scale <= entropy_bits /\ entropy_bits < 36 * Scale)
           /\ (label = "Reasonable") <=> (36 * Scale <= entropy_bits /\ entropy_bits < 60 * Scale)
           /\ (label = "Strong") <=> (60 * Scale <= entropy_bits /\ entropy_bits < 80 * Scale)
           /\ (label = "Very strong") <=> (80 * Scale <= entropy_bits)

C9_Witness ==
    /\ entropy_bits = 60 * Scale
    /\ label = "Strong"

(* C10: for a charset size S > 1 and lengths L1 <= L2 the label of
   estimate_entropy(L1, S) is not stronger than that of estimate_entropy(L2, S);
   estimate_entropy returns 0 when the charset size is <= 0. *)
Rank(l) ==
    CASE l = "Very weak" -> 0
      [] l = "Weak" -> 1
      [] l = "Reasonable" -> 2
      [] l = "Strong" -> 3
      [] l = "Very strong" -> 4

C10_MonotoneInLength ==
    est_ret.done
        => /\ (est_args.charset_size > 1 /\ est_args.length1 <= est_args.length2)
                => Rank(est_ret.label1) <= Rank(est_ret.label2)
           /\ est_args.charset_size <= 0 => (est_ret.bits1 = 0 /\ est_ret.bits2 = 0)

\* two lengths under one charset size whose labels differ
C10_Witness ==
    /\ est_ret.done
    /\ est_args.charset_size = 54
    /\ est_args.length1 = 6
    /\ est_args.length2 = 12
    /\ est_ret.label1 = "Weak"
    /\ est_ret.label2 = "Strong"

----------------------------------------------------------------------------
(* PassGenApp, src/encode.py lines 565-694 *)

\* Spinbox and checkbutton values of __init__
DefaultLength == 16
DefaultCount == 1

GuiLengths == (0..GuiMaxLen) \cup {DefaultLength}
GuiCounts == 0..MaxCount
\* the outcomes of the random source explored for a handler: one value repeated
GuiTapes == [1..1 -> 0..(MaxRand - 1)]

\* for _ in range(count): results.append(generate_password(...)); the calls
\* draw one after the other from the random source, k draws being made before
RECURSIVE generate_batch(_, _, _, _, _, _, _, _, _)
generate_batch(count, length, inc_lower, inc_upper, inc_digits, inc_symbols, excl_amb, tape, k) ==
    IF count <= 0 THEN <<>>
    ELSE LET r == generate_password(length, inc_lower, inc_upper, inc_digits,
                                    inc_symbols, excl_amb, tape, k)
         IN <<r>> \o generate_batch(count - 1, length, inc_lower, inc_upper,
                                    inc_digits, inc_symbols, excl_amb, tape,
                                    k + r.draws)

\* the results joined without the line separator
RECURSIVE join_lines_concat(_)
join_lines_concat(results) ==
    IF results = <<>> THEN <<>> ELSE Head(results) \o join_lines_concat(Tail(results))

\* "\n".join(results)
RECURSIVE join_lines(_)
join_lines(results) ==
    IF results = <<>> THEN <<>>
    ELSE IF Len(results) = 1 THEN Head(results)
    ELSE Head(results) \o <<"\n">> \o join_lines(Tail(results))

\* f"{entropy:.1f}": the entropy rounded to tenths of a bit
format_1f(entropy) == (entropy * 10 + Scale \div 2) \div Scale

\* str.strip() of the content of the output box
Whitespace == {" ", "\t", "\n", "\r"}
RECURSIVE lstrip(_)
lstrip(s) == IF s # <<>> /\ Head(s) \in Whitespace THEN lstrip(Tail(s)) ELSE s
RECURSIVE rstrip(_)
rstrip(s) ==
    IF s # <<>> /\ s[Len(s)] \in Whitespace THEN rstrip(SubSeq(s, 1, Len(s) - 1)) ELSE s
strip(s) == rstrip(lstrip(s))

\* on_generate under the outcome `tape` of the random source
on_generate_with(tape) ==
    LET length == length_var
        count == count_var
        charset == build_charset(lower_var, upper_var, digits_var, symbols_var,
                                 ambig_var).charset
    IN IF charset = <<>>
       THEN /\ messagebox' = "showwarning: No character set"
            /\ UNCHANGED <<text, entropy_var, strength_var, status_var>>
       ELSE \E calls \in {generate_batch(count, length, lower_var, upper_var, digits_var,
                                         symbols_var, ambig_var, tape, 0)} :
            LET raised == \E i \in DOMAIN calls : calls[i].status # "returned"
                results == [i \in DOMAIN calls |-> calls[i].pwd]
                entropy == estimate_entropy(length, Len(charset))
            IN IF raised
               THEN /\ messagebox' = "showerror: Error"
                    /\ UNCHANGED <<text, entropy_var, strength_var, status_var>>
               ELSE /\ text' = join_lines(results)
                    /\ entropy_var' = format_1f(entropy)
                    /\ strength_var' = strength_label(entropy)
                    /\ status_var' = "Generated"
                    /\ messagebox' = "none"

\* the state the constructor leaves: the widgets' defaults, then on_generate
GuiInit ==
    /\ length_var = DefaultLength
    /\ count_var = DefaultCount
    /\ lower_var = TRUE /\ upper_var = TRUE /\ digits_var = TRUE
    /\ symbols_var = FALSE
    /\ ambig_var = TRUE
    /\ \E tape \in GuiTapes :
          LET charset == build_charset(TRUE, TRUE, TRUE, FALSE, TRUE).charset
              calls == generate_batch(DefaultCount, DefaultLength, TRUE, TRUE, TRUE,
                                      FALSE, TRUE, tape, 0)
              entropy == estimate_entropy(DefaultLength, Len(charset))
          IN /\ text = join_lines([i \in DOMAIN calls |-> calls[i].pwd])
             /\ entropy_var = format_1f(entropy)
             /\ strength_var = strength_label(entropy)
    /\ status_var = "Generated"
    /\ messagebox = "none"
    /\ clipboard = <<>>
    /\ events = 0
    /\ PasswordIdle
    /\ CaesarIdle
    /\ HashIdle
    /\ entropy_bits = 0
    /\ label = ""
    /\ est_args = [length1 |-> 0, length2 |-> 0, charset_size |-> 0]
    /\ est_ret = NoEstimate

on_generate ==
    /\ events < MaxEvents
    /\ events' = events + 1
    /\ UNCHANGED <<length_var, count_var, lower_var, upper_var, digits_var,
                   symbols_var, ambig_var, clipboard, fnVars, czVars,
                   hashVars>>
    /\ \E tape \in GuiTapes : on_generate_with(tape)

\* on_copy; `ok` is whether the clipboard accepted the data
on_copy ==
    /\ events < MaxEvents
    /\ events' = events + 1
    /\ \E ok \in BOOLEAN :
          LET data == strip(text)
          IN IF data = <<>>
             THEN /\ messagebox' = "showinfo: Nothing to copy"
                  /\ UNCHANGED <<clipboard, status_var>>
             ELSE IF ok
             THEN /\ clipboard' = data
                  /\ status_var' = "Copied to clipboard"
                  /\ messagebox' = "none"
             ELSE /\ messagebox' = "showerror: Copy failed"
                  /\ UNCHANGED <<clipboard, status_var>>
    /\ UNCHANGED <<length_var, count_var, lower_var, upper_var, digits_var,
                   symbols_var, ambig_var, text, entropy_var, strength_var, fnVars, czVars,
                   hashVars>>

on_clear ==
    /\ events < MaxEvents
    /\ events' = events + 1
    /\ text' = <<>>
    /\ status_var' = "Cleared"
    /\ messagebox' = "none"
    /\ UNCHANGED <<length_var, count_var, lower_var, upper_var, digits_var,
                   symbols_var, ambig_var, entropy_var, strength_var, clipboard,
                   fnVars, czVars,
                   hashVars>>

\* the user edits a spinbox or clicks a checkbutton
set_length ==
    /\ events < MaxEvents
    /\ events' = events + 1
    /\ \E v \in GuiLengths \ {length_var} : length_var' = v
    /\ messagebox' = "none"
    /\ UNCHANGED <<count_var, lower_var, upper_var, digits_var, symbols_var,
                   ambig_var, text, entropy_var, strength_var, status_var,
                   clipboard, fnVars, czVars,
                   hashVars>>

set_count ==
    /\ events < MaxEvents
    /\ events' = events + 1
    /\ \E v \in GuiCounts \ {count_var} : count_var' = v
    /\ messagebox' = "none"
    /\ UNCHANGED <<length_var, lower_var, upper_var, digits_var, symbols_var,
                   ambig_var, text, entropy_var, strength_var, status_var,
                   clipboard, fnVars, czVars,
                   hashVars>>

toggle ==
    /\ events < MaxEvents
    /\ events' = events + 1
    /\ \E b \in 1..5 :
          /\ lower_var' = IF b = 1 THEN ~lower_var ELSE lower_var
          /\ upper_var' = IF b = 2 THEN ~upper_var ELSE upper_var
          /\ digits_var' = IF b = 3 THEN ~digits_var ELSE digits_var
          /\ symbols_var' = IF b = 4 THEN ~symbols_var ELSE symbols_var
          /\ ambig_var' = IF b = 5 THEN ~ambig_var ELSE ambig_var
    /\ messagebox' = "none"
    /\ UNCHANGED <<length_var, count_var, text, entropy_var, strength_var,
                   status_var, clipboard, fnVars, czVars,
                   hashVars>>

Next == on_generate \/ on_copy \/ on_clear \/ set_length \/ set_count \/ toggle

Spec == GuiInit /\ [][Next]_vars

----------------------------------------------------------------------------
(* C6: a Generate with length <= 0 or count <= 0 fails with an error dialog
   and changes neither the output box nor the entropy, strength or status. *)
C6_InvalidRejected ==
    [][((length_var <= 0 \/ count_var <= 0) /\ on_generate)
          => /\ messagebox' = "showerror: Error"
             /\ UNCHANGED <<text, entropy_var, strength_var, status_var>>]_vars

----------------------------------------------------------------------------
(* C14: on the normal path the shuffle only permutes: the returned password
   has the characters of the required draws followed by the filler draws,
   each as many times, also for length 1. *)
C14_ShufflePermutes ==
    (ret.status = "returned" /\ ret.path = "normal")
        => LET combined == ret.required \o ret.others
           IN /\ Len(ret.pwd) = Len(combined)
              /\ Len(combined) = args.length
              /\ \A c \in CharsOf(ret.pwd) \cup CharsOf(combined) :
                    CountIn(ret.pwd, {c}) = CountIn(combined, {c})

\* the shuffle moved a character
C14_Witness ==
    /\ ret.status = "returned"
    /\ ret.path = "normal"
    /\ args.length = 3
    /\ Len(ret.required) = 2
    /\ ret.pwd # ret.required \o ret.others
    /\ ret.pwd[3] = ret.required[1]

(* C15: the effective charset is the concatenation, in the order Lowercase,
   Uppercase, Digits, Symbols, of the enabled alphabets without the ambiguous
   characters when exclude_ambig is set; it holds no character twice; it is
   the concatenation of the per-category pools; and it depends on the
   configuration alone. *)
ExpectedPool(alphabet) ==
    SelectSeq(alphabet, LAMBDA ch : ~(args.exclude_ambig /\ ch \in AmbiguousSet))

ExpectedPools ==
    (IF args.include_lower THEN <<ExpectedPool(LOWER)>> ELSE <<>>)
    \o (IF args.include_upper THEN <<ExpectedPool(UPPER)>> ELSE <<>>)
    \o (IF args.include_digits THEN <<ExpectedPool(DIGITS)>> ELSE <<>>)
    \o (IF args.include_symbols THEN <<ExpectedPool(SYMBOLS)>> ELSE <<>>)

C15_CharsetDerivation ==
    ret.status # "pending"
        => /\ ret.parts = ExpectedPools
           /\ ret.charset = join(ExpectedPools)
           /\ Cardinality(CharsOf(ret.charset)) = Len(ret.charset)
           /\ join(ret.parts) = ret.charset

C15_Witness ==
    /\ ret.status = "returned"
    /\ args.exclude_ambig
    /\ args.include_lower /\ args.include_upper
    /\ args.include_digits /\ args.include_symbols
    /\ Len(ret.parts) = 4
    /\ Len(ret.charset) = 83
    /\ ret.charset[1] = "a"
    /\ ret.charset[83] = "?"

----------------------------------------------------------------------------
(* What the claims about the window speak of *)

\* the charset build_charset returns for the options set in the window
GuiCharset ==
    build_charset(lower_var, upper_var, digits_var, symbols_var, ambig_var).charset

GuiNoCategory == ~(lower_var \/ upper_var \/ digits_var \/ symbols_var)

\* Lowercase, Uppercase and Digits enabled, Symbols disabled, exclusion on
ExampleConfig ==
    lower_var /\ upper_var /\ digits_var /\ ~symbols_var /\ ambig_var

(* C11 as stated: for the example configuration the effective charset has
   23 lowercase + 23 uppercase + 8 digit characters = 54 characters and 54 is
   the size the entropy shown is computed from. *)
C11_ExampleSize54 ==
    [][(ExampleConfig /\ on_generate)
          => /\ CountIn(GuiCharset, CharsOf(LOWER)) = 23
             /\ CountIn(GuiCharset, CharsOf(UPPER)) = 23
             /\ CountIn(GuiCharset, CharsOf(DIGITS)) = 8
             /\ Len(GuiCharset) = 54
             /\ entropy_var' = format_1f(estimate_entropy(length_var, 54))]_vars

(* C11 as amended: for the example configuration the effective charset
   excludes I, l, O, 0, 1 and has 25 lowercase + 24 uppercase + 8 digit
   characters = 57 characters, and 57 is the size the entropy and the strength
   shown are computed from. *)
C11_ExampleSize57 ==
    [][(ExampleConfig /\ on_generate)
          => /\ CharsOf(GuiCharset) \cap AmbiguousSet = {}
             /\ CountIn(GuiCharset, CharsOf(LOWER)) = 25
             /\ CountIn(GuiCharset, CharsOf(UPPER)) = 24
             /\ CountIn(GuiCharset, CharsOf(DIGITS)) = 8
             /\ Len(GuiCharset) = 57
             /\ entropy_var' = format_1f(estimate_entropy(length_var, 57))
             /\ strength_var' = strength_label(estimate_entropy(length_var, 57))]_vars

\* a Generate of one password of length 1 under the example configuration
C11_Witness ==
    /\ ExampleConfig
    /\ length_var = 1
    /\ count_var = 1
    /\ status_var = "Generated"
    /\ Len(text) = 1
    /\ entropy_var = 58
    /\ strength_var = "Very weak"

(* C16: a Generate with a valid configuration and count >= 1 replaces the
   output box with exactly count lines, each of the requested length, and
   shows the entropy and the strength of the length and the charset size,
   whatever was drawn. *)
C16_BatchGeneration ==
    [][(length_var >= 1 /\ count_var >= 1 /\ ~GuiNoCategory /\ on_generate)
          => \A charset \in {GuiCharset} :
                LET entropy == estimate_entropy(length_var, Len(charset))
                IN /\ status_var' = "Generated"
                   /\ entropy_var' = format_1f(entropy)
                   /\ strength_var' = strength_label(entropy)
                   /\ Len(text') = count_var * length_var + (count_var - 1)
                   /\ \A p \in DOMAIN text' :
                         IF p % (length_var + 1) = 0
                         THEN text'[p] = "\n"
                         ELSE In(text'[p], charset)]_vars

\* two passwords of length 1 in the output box
C16_Witness ==
    /\ count_var = 2
    /\ length_var = 1
    /\ status_var = "Generated"
    /\ Len(text) = 3
    /\ text[2] = "\n"
    /\ text[1] # "\n" /\ text[3] # "\n"

(* C17: a Generate while no category is enabled leaves the output box, the
   entropy, the strength and the status as they were. *)
C17_FailedGenerateKeeps ==
    [][(GuiNoCategory /\ on_generate)
          => UNCHANGED <<text, entropy_var, strength_var, status_var>>]_vars

\* the warning of a Generate without category, the earlier passwords still shown
C17_Witness ==
    /\ GuiNoCategory
    /\ messagebox = "showwarning: No character set"
    /\ text # <<>>
    /\ status_var = "Generated"

----------------------------------------------------------------------------
(* The Caesar functions, src/encode.py lines 46-86.  A character is its code
   point, a text a sequence of code points. *)

\* the longest text explored, and the shifts explored: -MaxShift..MaxShift
MaxTextLen == 2
MaxShift == 27

\* ord('A'), ord('a'), ord('0')
ord_A == 65
ord_a == 97
ord_0 == 48

AsciiUpper == 65..90
AsciiLower == 97..122
AsciiDigits == 48..57
\* letters and digits outside ASCII that Python's str methods accept:
\* 'É' is uppercase, 'é' lowercase, the CJK letter U+4E2D has no case,
\* U+0663 is the Arabic-Indic digit three
OtherUpper == {201}
OtherLower == {233}
OtherLetters == {20013}
OtherDigits == {1635}

\* str.isalpha, str.isupper, str.isdigit of a one-character string
isalpha(ch) == ch \in AsciiUpper \cup AsciiLower \cup OtherUpper \cup OtherLower \cup OtherLetters
isupper(ch) == ch \in AsciiUpper \cup OtherUpper
islower(ch) == ch \in AsciiLower \cup OtherLower
isdigit(ch) == ch \in AsciiDigits \cup OtherDigits

\* _shift_alpha taking ord('a') as the base of every letter
_shift_alpha_lowerbase(ch, k, encode) ==
    IF ~isalpha(ch) THEN ch
    ELSE LET base == ord_a
             off == ch - base
             k26 == k % 26
             val == IF encode THEN (off + k26) % 26 ELSE (off - k26) % 26
         IN base + val

_shift_alpha(ch, k, encode) ==
    IF ~isalpha(ch) THEN ch
    ELSE LET base == IF isupper(ch) THEN ord_A ELSE ord_a
             off == ch - base
             k26 == k % 26
             val == IF encode THEN (off + k26) % 26 ELSE (off - k26) % 26
         IN base + val

_shift_digit(d, k, encode) ==
    IF ~isdigit(d) THEN d
    ELSE LET k10 == k % 10
             off == d - ord_0
             val == IF encode THEN (off + k10) % 10 ELSE (off - k10) % 10
         IN ord_0 + val

\* str.lower() of the mode strings explored
Modes == {"encode", "decode", "Encode"}
lower(mode) == IF mode = "Encode" THEN "encode" ELSE mode

caesar_transform(s, shift, mode, rotate_digits) ==
    LET encode == (lower(mode) = "encode")
        s26 == shift % 26
        s10 == shift % 10
    IN [i \in DOMAIN s |->
           IF isalpha(s[i]) THEN _shift_alpha(s[i], s26, encode)
           ELSE IF rotate_digits /\ isdigit(s[i]) THEN _shift_digit(s[i], s10, encode)
           ELSE s[i]]

\* the characters the texts are made of: A Z a z 0 9, space, and the letters
\* and the digit outside ASCII
TextChars == {65, 90, 97, 122, 48, 57, 32} \cup OtherUpper \cup OtherLower \cup OtherLetters \cup OtherDigits
Texts == UNION {[1..n -> TextChars] : n \in 0..MaxTextLen}
Shifts == (0 - MaxShift)..MaxShift

CaesarInit ==
    /\ cz_args \in [text : Texts, shift : Shifts, mode : Modes, rotate_digits : BOOLEAN]
    /\ cz_ret = NoCaesar
    /\ PasswordIdle
    /\ GuiIdle
    /\ HashIdle
    /\ entropy_bits = 0
    /\ label = ""
    /\ est_args = [length1 |-> 0, length2 |-> 0, charset_size |-> 0]
    /\ est_ret = NoEstimate

\* res = caesar_transform(text, shift, mode, rotate_digits)
CallCaesarTransform ==
    /\ cz_ret.step = 0
    /\ cz_ret' = [step |-> 1,
                  out |-> caesar_transform(cz_args.text, cz_args.shift, cz_args.mode,
                                           cz_args.rotate_digits),
                  back |-> <<>>]
    /\ UNCHANGED <<cz_args, fnVars, guiVars, hashVars>>

\* the result transformed back with the same shift in the other mode
CallCaesarBack ==
    /\ cz_ret.step = 1
    /\ cz_ret' = [cz_ret EXCEPT
                    !.step = 2,
                    !.back = caesar_transform(cz_ret.out, cz_args.shift,
                                 IF lower(cz_args.mode) = "encode" THEN "decode" ELSE "encode",
                                 cz_args.rotate_digits)]
    /\ UNCHANGED <<cz_args, fnVars, guiVars, hashVars>>

CaesarNext == CallCaesarTransform \/ CallCaesarBack
SpecCaesar == CaesarInit /\ [][CaesarNext]_vars

(* C12: encoding a text and decoding the result with the same shift and the
   same rotate_digits gives the text back, whatever letters and digits the
   text holds. *)
C12_RoundTrip ==
    (cz_ret.step = 2 /\ lower(cz_args.mode) = "encode") => cz_ret.back = cz_args.text

(* C13: the output of caesar_transform is as long as the input; a character
   that is neither a letter nor a digit stays as it is, and so does a digit
   when rotate_digits is false; an uppercase letter gives an uppercase letter
   and a lowercase letter a lowercase letter. *)
C13_Preserves ==
    cz_ret.step >= 1
        => /\ Len(cz_ret.out) = Len(cz_args.text)
           /\ \A i \in DOMAIN cz_args.text :
                 LET ch == cz_args.text[i]
                     res == cz_ret.out[i]
                 IN /\ (~isalpha(ch) /\ ~isdigit(ch)) => res = ch
                    /\ (isdigit(ch) /\ ~cz_args.rotate_digits) => res = ch
                    /\ isupper(ch) => isupper(res)
                    /\ islower(ch) => islower(res)

\* "ZÉ" encoded with shift 27 gives "AH"
C13_Witness ==
    /\ cz_ret.step = 1
    /\ cz_args.shift = 27
    /\ cz_args.mode = "encode"
    /\ cz_args.text = <<90, 201>>
    /\ cz_ret.out = <<65, 72>>

----------------------------------------------------------------------------
(* The hashing window, src/unnamed/part_000 *)

\* str.strip() and str.lower() of the content of an entry
strip_value(v) == [v EXCEPT !.padded = FALSE]
lower_value(v) == [v EXCEPT !.upper = FALSE]

\* str.encode("utf-8") of the characters the input box can hold
utf8(ch) ==
    CASE ch = "a" -> 97
      [] ch = "b" -> 98
      [] ch = " " -> 32
      [] ch = "\n" -> 10
encode(raw) == [i \in DOMAIN raw |-> utf8(raw[i])]

\* compute_hash_bytes: the hexdigest, lowercase hexadecimal digits; two digests
\* are equal when the algorithm and the bytes are
compute_hash_bytes(data, algo) ==
    LET alg == IF lower(algo) = "md5" THEN "md5" ELSE "sha256"
    IN [core |-> [alg |-> alg, data |-> data], upper |-> FALSE, padded |-> FALSE]

\* values=["sha256","md5"] of the read-only combobox
Algorithms == {"sha256", "md5"}
\* what the user types, pastes or opens into the input box
InputTexts == {<<>>, <<"a">>, <<"b">>, <<" ">>}
\* text_widget.get("1.0", tk.END): the content and the newline Tk appends
get_text(content) == content \o <<"\n">>

\* the texts a user can type into an entry or keep in a hash file: nothing,
\* whitespace, or the digest of an input text in either case, padded or not
Digests == {compute_hash_bytes(encode(get_text(t)), a).core : t \in InputTexts \ {<<>>, <<" ">>}, a \in Algorithms}
EntryTexts ==
    {EmptyString, [EmptyString EXCEPT !.padded = TRUE]}
        \cup [core : Digests, upper : BOOLEAN, padded : BOOLEAN]

\* algo.upper() inside the status text
computed_status(algo) ==
    IF algo = "md5" THEN "Computed MD5 hash" ELSE "Computed SHA256 hash"

\* HashGUI.__init__
HashInit ==
    /\ algo_var = "sha256"
    /\ text_widget = <<>>
    /\ hash_var = EmptyString
    /\ verify_var = EmptyString
    /\ status = "Ready"
    /\ hash_box = "none"
    /\ PasswordIdle
    /\ GuiIdle
    /\ CaesarIdle
    /\ entropy_bits = 0
    /\ label = ""
    /\ est_args = [length1 |-> 0, length2 |-> 0, charset_size |-> 0]
    /\ est_ret = NoEstimate

\* the user replaces the content of the input box (typing, pasting, open_file)
edit_text ==
    /\ \E t \in InputTexts \ {text_widget} : text_widget' = t
    /\ hash_box' = "none"
    /\ UNCHANGED <<algo_var, hash_var, verify_var, status, fnVars, guiVars, czVars>>

\* the user picks the other algorithm in the combobox
select_algo ==
    /\ \E a \in Algorithms \ {algo_var} : algo_var' = a
    /\ hash_box' = "none"
    /\ UNCHANGED <<text_widget, hash_var, verify_var, status, fnVars, guiVars, czVars>>

\* the user types into the "Verify against" entry
type_verify ==
    /\ \E v \in EntryTexts \ {verify_var} : verify_var' = v
    /\ hash_box' = "none"
    /\ UNCHANGED <<algo_var, text_widget, hash_var, status, fnVars, guiVars, czVars>>

clear_text ==
    /\ text_widget' = <<>>
    /\ hash_var' = EmptyString
    /\ verify_var' = EmptyString
    /\ status' = "Cleared"
    /\ hash_box' = "none"
    /\ UNCHANGED <<algo_var, fnVars, guiVars, czVars>>

compute ==
    /\ LET raw == get_text(text_widget)
       IN IF strip(raw) = <<>>
          THEN /\ hash_box' = "showinfo: Compute"
               /\ UNCHANGED <<hash_var, status>>
          ELSE /\ hash_var' = compute_hash_bytes(encode(raw), algo_var)
               /\ status' = computed_status(algo_var)
               /\ hash_box' = "none"
    /\ UNCHANGED <<algo_var, text_widget, verify_var, fnVars, guiVars, czVars>>

\* load_hash_file; `path` is what the dialog and the open give: no path, a
\* file that cannot be read, or a file holding `content`
load_hash_file ==
    /\ \E path \in {"cancel", "unreadable", "read"}, content \in EntryTexts :
          IF path = "cancel"
          THEN /\ hash_box' = "none"
               /\ UNCHANGED <<hash_var, status>>
          ELSE IF path = "unreadable"
          THEN /\ hash_box' = "showerror: Load hash"
               /\ UNCHANGED <<hash_var, status>>
          ELSE /\ hash_var' = strip_value(content)
               /\ status' = "Loaded hash from file"
               /\ hash_box' = "none"
    /\ UNCHANGED <<algo_var, text_widget, verify_var, fnVars, guiVars, czVars>>

\* verify, the call of compute included
verify ==
    /\ LET provided == lower_value(strip_value(verify_var))
           computed == lower_value(strip_value(hash_var))
           raw == get_text(text_widget)
           blank == strip(raw) = <<>>
           \* hash_var after the optional self.compute()
           hash_after == IF computed = EmptyString /\ ~blank
                         THEN compute_hash_bytes(encode(raw), algo_var)
                         ELSE hash_var
           computed_after == lower_value(strip_value(hash_after))
       IN IF provided = EmptyString
          THEN /\ hash_box' = "showinfo: Verify"
               /\ UNCHANGED <<hash_var, status>>
          ELSE /\ hash_var' = hash_after
               /\ IF provided = computed_after
                  THEN /\ hash_box' = "showinfo: Verification: MATCH"
                       /\ status' = "Verification: MATCH"
                  ELSE /\ hash_box' = "showerror: Verification: MISMATCH"
                       /\ status' = "Verification: MISMATCH"
    /\ UNCHANGED <<algo_var, text_widget, verify_var, fnVars, guiVars, czVars>>

HashNext ==
    \/ edit_text
    \/ select_algo
    \/ type_verify
    \/ clear_text
    \/ compute
    \/ load_hash_file
    \/ verify
SpecHash == HashInit /\ [][HashNext]_vars

(* C18: when Verify has just reported MATCH, the "Verify against" value,
   without its surrounding whitespace and in lowercase, is the hash, under the
   selected algorithm, of the text in the input box. *)
C18_MatchIsCurrentHash ==
    hash_box = "showinfo: Verification: MATCH"
        => lower_value(strip_value(verify_var))
              = compute_hash_bytes(encode(get_text(text_widget)), algo_var)

====
